---- MODULE Spec2Model ----
(***************************************************************************)
(* calendar-time-analysis.py: expansion of recurring calendar events,      *)
(* reconciliation against RECURRENCE-ID overrides, classification by a     *)
(* title pattern and aggregation of durations per category.                *)
(*                                                                         *)
(* Time is counted in ticks; a calendar day has DayLen ticks.  A timestamp *)
(* is a wall-clock reading together with the UTC offset of its tzinfo.     *)
(* Dates are day numbers, day 0 being a Monday.  Strings that the program  *)
(* inspects character by character are sequences of one-character strings.*)
(***************************************************************************)
EXTENDS Integers, Sequences, FiniteSets, TLC

MaxFeedLen == 3
DayLen == 2
MaxCount == 2
MaxPool == 3
Horizon == 3
SummaryLimit == 200
Today == 0

(***************************************************************************)
(* Timestamps (aware datetime values).                                     *)
(***************************************************************************)
T(w, o) == [wall |-> w, off |-> o]

\* datetime.astimezone(pytz.timezone('UTC')): the wall clock in UTC
AsUTC(t) == t.wall - t.off

\* datetime.date() of a UTC reading
UTCDate(t) == AsUTC(t) \div DayLen

\* datetime.date() of an aware datetime: the date of its own wall clock
LocalDate(t) == t.wall \div DayLen

\* dtend - dtstart of two aware datetimes
Minus(a, b) == AsUTC(a) - AsUTC(b)

\* datetime.replace(tzinfo = tz): the wall clock is kept, the offset swapped
ReplaceTz(t, o) == T(t.wall, o)

\* Monday and Sunday of the ISO week of a date ('%G-W%V' + '-1' / '-7')
WeekStart(d) == d - (d % 7)
WeekEnd(d) == WeekStart(d) + 6

(***************************************************************************)
(* Strings.                                                                *)
(***************************************************************************)
Alnum == {"W", "w", "x", "N", "o", "n", "e"}

\* the character class [A-Z-a-z-0-9-+_\\\/\|] of the default --cregex
ClassChars == Alnum \cup {"-", "+", "_", "\\", "/", "|"}

LowerChar(c) == CASE c = "W" -> "w"
                  [] c = "N" -> "n"
                  [] OTHER -> c

\* str.lower()
Lower(s) == [k \in 1..Len(s) |-> LowerChar(s[k])]

CATEGORY_IGNORED == <<"_", "U", "n", "c", "a", "t", "e", "g", "o", "r", "i", "z", "e", "d", "_">>

\* str(None)
NoneStr == <<"N", "o", "n", "e">>

\* str(component.get('SUMMARY'))
Str(opt) == IF opt = <<>> THEN NoneStr ELSE opt[1]

\* summary[:200]
Truncate(s) == SubSeq(s, 1, IF Len(s) < SummaryLimit THEN Len(s) ELSE SummaryLimit)

\* length of the longest run of class characters of s that starts at from
RECURSIVE ClassRun(_, _)
ClassRun(s, from) ==
    IF from <= Len(s) /\ s[from] \in ClassChars
    THEN 1 + ClassRun(s, from + 1)
    ELSE 0

\* category_pattern.match(summary): <<>> for None, else <<m[0]>>
PatternMatch(s) ==
    LET k1 == ClassRun(s, 2)
        k2 == ClassRun(s, 1)
    IN  IF Len(s) >= 1 /\ s[1] = "[" /\ Len(s) >= k1 + 2 /\ s[k1 + 2] = "]"
        THEN <<SubSeq(s, 1, k1 + 2)>>
        ELSE IF k2 >= 1 /\ k2 <= 7 /\ Len(s) >= k2 + 3
                /\ s[k2 + 1] = " " /\ s[k2 + 2] = "-" /\ s[k2 + 3] = " "
             THEN <<SubSeq(s, 1, k2 + 3)>>
             ELSE <<>>

\* ''.join(l for l in m[0] if l.isalnum())
AlnumOnly(s) == SelectSeq(s, LAMBDA c : c \in Alnum)

(***************************************************************************)
(* The parsed calendar: VEVENT components.  An optional property is a      *)
(* sequence of length 0 (absent) or 1.                                     *)
(***************************************************************************)
\* count 0 stands for a rule with neither COUNT nor UNTIL
Rule(step, count, ok) == [step |-> step, count |-> count, ok |-> ok]

Component(uid, summary, dtstart, dtend, dateonly, rid, rrule, exdates) ==
    [uid |-> uid, summary |-> summary, dtstart |-> dtstart, dtend |-> dtend,
     dateonly |-> dateonly, rid |-> rid, rrule |-> rrule, exdates |-> exdates]

SumW == <<"[", "W", "]">>
Sumw == <<"[", "w", "]">>
SumX == <<"x">>
SumDash == <<"w", " ", "-", " ">>

SeriesA == Component("u1", <<SumW>>, T(0, 0), T(1, 0), FALSE, <<>>,
                     <<Rule(1, MaxCount, TRUE)>>, <<>>)
SeriesB == Component("u1", <<Sumw>>, T(DayLen, 1), T(DayLen + 1, 1), FALSE, <<>>,
                     <<Rule(1, MaxCount, TRUE)>>, <<T(DayLen - 1, 0)>>)
SeriesC == Component("u2", <<SumX>>, T(0, 0), T(2, 0), FALSE, <<>>,
                     <<Rule(DayLen, MaxCount, TRUE)>>, <<T(DayLen, 0)>>)
SeriesD == Component("u2", <<SumW>>, T(0, 0), T(1, 0), FALSE, <<>>,
                     <<Rule(1, MaxCount, FALSE)>>, <<>>)

SeriesE == Component("u2", <<Sumw>>, T(0, 0), T(1, 0), FALSE, <<>>,
                     <<Rule(DayLen, 0, TRUE)>>, <<>>)

OverrideA == Component("u1", <<>>, T(DayLen, 0), T(DayLen + 1, 0), FALSE,
                       <<T(1, 0)>>, <<>>, <<>>)
OverrideB == Component("u1", <<Sumw>>, T(0, 0), T(2, 0), FALSE,
                       <<T(0, 0)>>, <<>>, <<>>)
OverrideC == Component("u1", <<SumX>>, T(DayLen + 1, 1), T(DayLen + 2, 1), FALSE,
                       <<T(DayLen, 0)>>, <<>>, <<>>)
OverrideD == Component("u2", <<SumW>>, T(0, 0), T(1, 0), FALSE,
                       <<T(0, 0)>>, <<>>, <<>>)
OverrideE == Component("u1", <<SumDash>>, T(1, 0), T(2, 0), FALSE,
                       <<T(1, 0)>>, <<>>, <<>>)

OverrideF == Component("u1", <<<<>>>>, T(1, 0), T(3, 0), FALSE,
                       <<T(0, 0)>>, <<>>, <<>>)

PlainA == Component("p1", <<SumW>>, T(0, 0), T(1, 0), FALSE, <<>>, <<>>, <<>>)
DateOnlyA == Component("p4", <<SumW>>, T(0, 0), T(DayLen, 0), TRUE, <<>>, <<>>, <<>>)

Components == {SeriesA, SeriesB, SeriesC, SeriesD, SeriesE,
               OverrideA, OverrideB, OverrideC, OverrideD, OverrideE, OverrideF,
               PlainA, DateOnlyA}

\* files of up to MaxFeedLen components of any kind
MixedFeeds == UNION {[1..n -> Components] : n \in 0..MaxFeedLen}

\* files of one series preceded by MaxPool overrides carrying its UID
PoolFeeds ==
    {p \o <<c>> : p \in [1..MaxPool -> {OverrideA, OverrideB, OverrideC,
                                         OverrideE, OverrideF}],
                  c \in {SeriesA, SeriesB}}

Feeds == MixedFeeds \cup PoolFeeds

\* command lines: each option absent (<<>>) or given
ArgSets == [week : {<<>>, <<8>>}, dstart : {<<>>, <<0>>}, dend : {<<>>, <<0>>}]

(***************************************************************************)
(* Program state.                                                          *)
(***************************************************************************)
VARIABLES
    pc,               \* position of the script
    args,             \* parsed command line: week, dstart, dend
    cw,               \* the week label: <<>> while the name is unbound
    calendar,         \* the VEVENT components in file order
    recurrence_list,  \* the override pool: references (indices) into calendar
    ci,               \* index of the component of the main loop
    instants,         \* list(rrset) of the series being reconciled
    ii,               \* index of the generated instant being resolved
    event_dict,       \* buckets in insertion order: key, total, events
    total_duration,   \* the grand total
    log,              \* records written to the log file
    calls,            \* history: the add_event calls made so far
    report            \* the printed report: <<>> until printed

vars == <<pc, args, cw, calendar, recurrence_list, ci, instants, ii,
          event_dict, total_duration, log, calls, report>>

(***************************************************************************)
(* add_event                                                               *)
(***************************************************************************)
\* variant: the window test on the UTC date of the start
InWindow_UTC(a, dtstart) ==
    a.dstart[1] <= UTCDate(dtstart) /\ a.dend[1] >= UTCDate(dtstart)

\* the window test of add_event
InWindow(a, dtstart) ==
    a.dstart[1] <= LocalDate(dtstart) /\ a.dend[1] >= LocalDate(dtstart)

\* variant: every duration is added to total_duration
CountsToTotal_Always(m) == TRUE

\* whether the duration is added to total_duration
CountsToTotal(m) == m # <<>>

\* the category of a (truncated) summary
Category(summary) ==
    LET m == PatternMatch(summary)
    IN  IF m # <<>> THEN AlnumOnly(m[1]) ELSE CATEGORY_IGNORED

\* index of the first key of the dictionary equal to category ignoring case
\* (0 when there is none)
RECURSIVE FindKey(_, _, _)
FindKey(ed, category, k) ==
    IF k > Len(ed) THEN 0
    ELSE IF Lower(ed[k].key) = Lower(category) THEN k
    ELSE FindKey(ed, category, k + 1)

\* variant: the category is used as the key without folding
CanonicalKey_Exact(ed, category) == category

\* "case insensitive category": the stored key when one matches
CanonicalKey(ed, category) ==
    LET k == FindKey(ed, category, 1)
    IN  IF k # 0 THEN ed[k].key ELSE category

\* index of the bucket stored under exactly this key (0 when there is none)
RECURSIVE KeyIndex(_, _, _)
KeyIndex(ed, key, k) ==
    IF k > Len(ed) THEN 0
    ELSE IF ed[k].key = key THEN k
    ELSE KeyIndex(ed, key, k + 1)

Event(dtstart, duration, summary, category) ==
    [dtstart |-> dtstart, duration |-> duration, summary |-> summary,
     category |-> category]

\* variant: the total of an existing bucket is not increased
AddEvent_KeepTotal(a, st, dtstart, duration, summary0) ==
    LET summary == Truncate(summary0)
        m == PatternMatch(summary)
        category == CanonicalKey(st.ed, Category(summary))
        k == KeyIndex(st.ed, category, 1)
        ev == Event(dtstart, duration, summary, category)
    IN  IF ~InWindow(a, dtstart) THEN st
        ELSE [td |-> IF CountsToTotal(m) THEN st.td + duration ELSE st.td,
              ed |-> IF k # 0
                     THEN [st.ed EXCEPT ![k] =
                              [key |-> @.key, total |-> @.total,
                               events |-> Append(@.events, ev)]]
                     ELSE Append(st.ed, [key |-> category, total |-> duration,
                                         events |-> <<ev>>])]

\* add_event(dtstart, duration, summary) on the aggregation state st
AddEvent(a, st, dtstart, duration, summary0) ==
    LET summary == Truncate(summary0)
        m == PatternMatch(summary)
        category == CanonicalKey(st.ed, Category(summary))
        k == KeyIndex(st.ed, category, 1)
        ev == Event(dtstart, duration, summary, category)
    IN  IF ~InWindow(a, dtstart) THEN st
        ELSE [td |-> IF CountsToTotal(m) THEN st.td + duration ELSE st.td,
              ed |-> IF k # 0
                     THEN [st.ed EXCEPT ![k] =
                              [key |-> @.key, total |-> @.total + duration,
                               events |-> Append(@.events, ev)]]
                     ELSE Append(st.ed, [key |-> category, total |-> duration,
                                         events |-> <<ev>>])]

\* a sequence of add_event calls, in order
RECURSIVE AddEvents(_, _, _)
AddEvents(a, st, cs) ==
    IF cs = <<>> THEN st
    ELSE AddEvents(a, AddEvent(a, st, cs[1].dtstart, cs[1].duration, cs[1].summary),
                   Tail(cs))

(***************************************************************************)
(* Recurrence expansion and override matching.                             *)
(***************************************************************************)
\* the instants of rrulestr(rule, dtstart = dtstart), before exclusions
\* (a rule without COUNT or UNTIL is iterated until the wall clock passes the
\* last representable year, Horizon)
Generated(dtstart, rule) ==
    LET n == IF rule.count # 0 THEN rule.count
             ELSE IF dtstart.wall > Horizon THEN 0
             ELSE (Horizon - dtstart.wall) \div rule.step + 1
    IN  [k \in 1..n |-> T(dtstart.wall + (k - 1) * rule.step, dtstart.off)]

\* the timestamps handed to rrset.exdate
Exdates(c) == {ReplaceTz(c.exdates[k], c.dtstart.off) : k \in 1..Len(c.exdates)}

\* list(rrset): the generated instants that equal no exdate
Expand(c) ==
    LET ex == Exdates(c)
    IN  SelectSeq(Generated(c.dtstart, c.rrule[1]), LAMBDA t : t \notin ex)

\* recur == dte
ExactMatch(g, e) == AsUTC(g) = AsUTC(e.rid[1])

\* variant: the dates compared are those of the two wall clocks as tagged
DateMatch_Local(g, e) == LocalDate(g) = LocalDate(e.rid[1])

\* recur.date() == dte.date()
DateMatch(g, e) == UTCDate(g) = UTCDate(e.rid[1])

\* FOUND after the two tests on override e for instant g
Found(g, e) == ExactMatch(g, e) \/ DateMatch(g, e)

\* variant: the scan does not compare the UID of the override
RECURSIVE ScanHit_AnyUid(_, _, _, _, _)
ScanHit_AnyUid(cal, pool, uid, g, k) ==
    IF k > Len(pool) THEN 0
    ELSE IF Found(g, cal[pool[k]]) THEN k
    ELSE ScanHit_AnyUid(cal, pool, uid, g, k + 1)

\* position in the pool of the override the scan stops at (0: none found)
RECURSIVE ScanHit(_, _, _, _, _)
ScanHit(cal, pool, uid, g, k) ==
    IF k > Len(pool) THEN 0
    ELSE IF cal[pool[k]].uid = uid /\ Found(g, cal[pool[k]]) THEN k
    ELSE ScanHit(cal, pool, uid, g, k + 1)

\* position of the first element of the pool equal (as a component) to e
RECURSIVE FirstEqual(_, _, _, _)
FirstEqual(cal, pool, e, k) ==
    IF k > Len(pool) THEN 0
    ELSE IF cal[pool[k]] = e THEN k
    ELSE FirstEqual(cal, pool, e, k + 1)

\* variant: the matched override is left in the pool
RemoveOverride_Keep(cal, pool, e) == pool

\* recurrence_list.remove(e)
RemoveOverride(cal, pool, e) ==
    LET j == FirstEqual(cal, pool, e, 1)
    IN  SubSeq(pool, 1, j - 1) \o SubSeq(pool, j + 1, Len(pool))

Call(idx, inst, src, exact, dtstart, duration, summary) ==
    [ci |-> idx, g |-> inst, src |-> src, exact |-> exact, dtstart |-> dtstart,
     duration |-> duration, summary |-> summary]

\* variant: the occurrence of a matched override starts at the generated instant
OverrideCall_AtInstant(idx, c, g, ref, e) ==
    Call(idx, <<g>>, ref, ExactMatch(g, e), g, Minus(e.dtend, e.dtstart),
         IF e.summary # <<>> /\ e.summary[1] # <<>> THEN e.summary[1]
         ELSE Str(c.summary))

\* the add_event call made for a matched override
OverrideCall(idx, c, g, ref, e) ==
    Call(idx, <<g>>, ref, ExactMatch(g, e), e.dtstart, Minus(e.dtend, e.dtstart),
         IF e.summary # <<>> /\ e.summary[1] # <<>> THEN e.summary[1]
         ELSE Str(c.summary))

\* the add_event call made for a plain generated instant
FallbackCall(idx, c, g) ==
    Call(idx, <<g>>, 0, FALSE, g, Minus(c.dtend, c.dtstart), Str(c.summary))

\* variant: the plain occurrence is added whether or not an override was found
Occurrences_Unguarded(cal, pool, idx, g, hit) ==
    IF hit # 0
    THEN <<OverrideCall(idx, cal[idx], g, pool[hit], cal[pool[hit]]),
           FallbackCall(idx, cal[idx], g)>>
    ELSE <<FallbackCall(idx, cal[idx], g)>>

\* the add_event calls made while resolving instant g of series cal[idx];
\* hit is the position in the pool the scan stopped at
Occurrences(cal, pool, idx, g, hit) ==
    IF hit # 0
    THEN <<OverrideCall(idx, cal[idx], g, pool[hit], cal[pool[hit]])>>
    ELSE <<FallbackCall(idx, cal[idx], g)>>

\* the records logged while resolving instant g
RelaxedLog(cal, pool, idx, g, hit) ==
    IF hit # 0 /\ DateMatch(g, cal[pool[hit]])
    THEN <<[msg |-> "relaxed matching", uid |-> cal[idx].uid, g |-> g,
            src |-> pool[hit]]>>
    ELSE <<>>

(***************************************************************************)
(* Command line.                                                           *)
(***************************************************************************)
check_args(a) ==
    \/ a.week = <<>> /\ a.dstart = <<>> /\ a.dend = <<>>
    \/ a.week # <<>> /\ a.dstart = <<>> /\ a.dend = <<>>
    \/ a.week = <<>> /\ a.dstart # <<>> /\ a.dend # <<>>

\* args after the defaulting of the date range
RangeArgs(a) ==
    LET a1 == IF a.dstart = <<>> \/ a.dend = <<>>
              THEN [a EXCEPT !.dstart = <<WeekStart(Today)>>,
                             !.dend = <<WeekEnd(Today)>>]
              ELSE a
    IN  IF a.week # <<>>
        THEN [a1 EXCEPT !.dstart = <<WeekStart(a.week[1])>>,
                        !.dend = <<WeekEnd(a.week[1])>>]
        ELSE a1

\* cw after the defaulting of the date range
RangeLabel(a) ==
    IF a.week # <<>> THEN <<WeekStart(a.week[1])>>
    ELSE IF a.dstart = <<>> \/ a.dend = <<>> THEN <<WeekStart(Today)>>
    ELSE <<>>

(***************************************************************************)
(* The script, top to bottom.                                              *)
(***************************************************************************)
Init ==
    /\ pc = "args"
    /\ args \in ArgSets
    /\ cw = <<>>
    /\ calendar = <<>>
    /\ recurrence_list = <<>>
    /\ ci = 1
    /\ instants = <<>>
    /\ ii = 1
    /\ event_dict = <<>>
    /\ total_duration = 0
    /\ log = <<>>
    /\ calls = <<>>
    /\ report = <<>>

\* parser.error: the combination of options is rejected
RejectArgs ==
    /\ pc = "args"
    /\ ~check_args(args)
    /\ pc' = "usage"
    /\ UNCHANGED <<args, cw, calendar, recurrence_list, ci, instants, ii,
                   event_dict, total_duration, log, calls, report>>

\* the options are accepted and the date range is defaulted
SetRange ==
    /\ pc = "args"
    /\ check_args(args)
    /\ args' = RangeArgs(args)
    /\ cw' = RangeLabel(args)
    /\ event_dict' = <<>>
    /\ total_duration' = 0
    /\ pc' = "read"
    /\ UNCHANGED <<calendar, recurrence_list, ci, instants, ii, log, calls, report>>

\* the file is read and parsed
ReadCalendar ==
    /\ pc = "read"
    /\ \E feed \in Feeds : calendar' = feed
    /\ recurrence_list' = <<>>
    /\ pc' = "collect"
    /\ UNCHANGED <<args, cw, ci, instants, ii, event_dict, total_duration,
                   log, calls, report>>

\* first loop: every VEVENT with a RECURRENCE-ID joins the pool, in file order
CollectOverrides ==
    /\ pc = "collect"
    /\ recurrence_list' = SelectSeq([k \in 1..Len(calendar) |-> k],
                                    LAMBDA k : calendar[k].rid # <<>>)
    /\ ci' = 1
    /\ pc' = "main"
    /\ UNCHANGED <<args, cw, calendar, instants, ii, event_dict, total_duration,
                   log, calls, report>>

InMain == pc = "main" /\ ci <= Len(calendar)

\* second loop: a component with a RECURRENCE-ID is passed over
SkipOverride ==
    /\ InMain
    /\ calendar[ci].rid # <<>>
    /\ ci' = ci + 1
    /\ UNCHANGED <<pc, args, cw, calendar, recurrence_list, instants, ii,
                   event_dict, total_duration, log, calls, report>>

\* second loop: DTSTART is a date; logged at debug level, below the threshold
SkipDateOnly ==
    /\ InMain
    /\ calendar[ci].rid = <<>>
    /\ calendar[ci].dateonly
    /\ ci' = ci + 1
    /\ UNCHANGED <<pc, args, cw, calendar, recurrence_list, instants, ii,
                   event_dict, total_duration, log, calls, report>>

\* the state after the add_event calls cs
Aggregate(cs) ==
    LET st == AddEvents(args, [ed |-> event_dict, td |-> total_duration], cs)
    IN  /\ event_dict' = st.ed
        /\ total_duration' = st.td
        /\ calls' = calls \o cs

\* second loop: an event without RRULE
PlainEvent ==
    /\ InMain
    /\ calendar[ci].rid = <<>>
    /\ ~calendar[ci].dateonly
    /\ calendar[ci].rrule = <<>>
    /\ LET c == calendar[ci]
       IN  Aggregate(<<Call(ci, <<>>, 0, FALSE, c.dtstart,
                            Minus(c.dtend, c.dtstart), Str(c.summary))>>)
    /\ ci' = ci + 1
    /\ UNCHANGED <<pc, args, cw, calendar, recurrence_list, instants, ii,
                   log, report>>

IsSeries(c) == c.rid = <<>> /\ ~c.dateonly /\ c.rrule # <<>>

\* second loop: the rule set of a series is built and expanded
ExpandSeries ==
    /\ InMain
    /\ IsSeries(calendar[ci])
    /\ calendar[ci].rrule[1].ok
    /\ instants' = Expand(calendar[ci])
    /\ ii' = 1
    /\ pc' = "recon"
    /\ UNCHANGED <<args, cw, calendar, recurrence_list, ci, event_dict,
                   total_duration, log, calls, report>>

\* second loop: rrulestr raises on a rule it cannot parse; nothing catches it
MalformedRule ==
    /\ InMain
    /\ IsSeries(calendar[ci])
    /\ ~calendar[ci].rrule[1].ok
    /\ pc' = "crashed"
    /\ UNCHANGED <<args, cw, calendar, recurrence_list, ci, instants, ii,
                   event_dict, total_duration, log, calls, report>>

\* one iteration of "for i in list(rrset)"
ReconcileInstant ==
    /\ pc = "recon"
    /\ ii <= Len(instants)
    /\ LET g == instants[ii]
           hit == ScanHit(calendar, recurrence_list, calendar[ci].uid, g, 1)
       IN  /\ Aggregate(Occurrences(calendar, recurrence_list, ci, g, hit))
           /\ log' = log \o RelaxedLog(calendar, recurrence_list, ci, g, hit)
           /\ recurrence_list' =
                 IF hit # 0
                 THEN RemoveOverride(calendar, recurrence_list,
                                     calendar[recurrence_list[hit]])
                 ELSE recurrence_list
    /\ ii' = ii + 1
    /\ UNCHANGED <<pc, args, cw, calendar, ci, instants, report>>

\* the instants of the series are exhausted
FinishSeries ==
    /\ pc = "recon"
    /\ ii > Len(instants)
    /\ ci' = ci + 1
    /\ pc' = "main"
    /\ UNCHANGED <<args, cw, calendar, recurrence_list, instants, ii,
                   event_dict, total_duration, log, calls, report>>

\* the printed lines: the header and one line per bucket
Printed ==
    [dstart |-> args.dstart[1], dend |-> args.dend[1], cw |-> cw,
     total |-> total_duration,
     buckets |-> {<<event_dict[k].key, event_dict[k].total>> :
                     k \in 1..Len(event_dict)}]

\* the report is printed
Report ==
    /\ pc = "main"
    /\ ci > Len(calendar)
    /\ cw # <<>>
    /\ report' = <<Printed>>
    /\ pc' = "done"
    /\ UNCHANGED <<args, cw, calendar, recurrence_list, ci, instants, ii,
                   event_dict, total_duration, log, calls>>

\* "if cw is None" reads a name that was never bound
ReportNameError ==
    /\ pc = "main"
    /\ ci > Len(calendar)
    /\ cw = <<>>
    /\ pc' = "crashed"
    /\ UNCHANGED <<args, cw, calendar, recurrence_list, ci, instants, ii,
                   event_dict, total_duration, log, calls, report>>

Next ==
    \/ RejectArgs
    \/ SetRange
    \/ ReadCalendar
    \/ CollectOverrides
    \/ SkipOverride
    \/ SkipDateOnly
    \/ PlainEvent
    \/ ExpandSeries
    \/ MalformedRule
    \/ ReconcileInstant
    \/ FinishSeries
    \/ Report
    \/ ReportNameError

Spec == Init /\ [][Next]_vars

(***************************************************************************)
(* Properties.                                                             *)
(***************************************************************************)
RECURSIVE SumSeq(_)
SumSeq(q) == IF q = <<>> THEN 0 ELSE Head(q) + SumSeq(Tail(q))

CallIdx == 1..Len(calls)

\* the override references of the whole feed
OverrideRefs == {k \in 1..Len(calendar) : calendar[k].rid # <<>>}

PoolRefs == {recurrence_list[k] : k \in 1..Len(recurrence_list)}

\* the calls that resolved a generated instant from an override
MatchIdx == {j \in CallIdx : calls[j].src # 0}

\* whether override o was still unconsumed when call j was made
UnconsumedBefore(o, j) == \A i \in 1..(j - 1) : calls[i].src # o

\* C1: an override that was matched and passed to add_event is out of the
\* pool, and no two resolved occurrences of the run come from the same
\* override, whatever instant or series they belong to.
C1_ExactlyOnce ==
    /\ \A i, j \in MatchIdx : i # j => calls[i].src # calls[j].src
    /\ \A j \in MatchIdx : calls[j].src \notin PoolRefs

\* a consumed override would have matched a later instant of another series
\* with the same UID, which was resolved without it
C1_Witness ==
    \E i, j \in CallIdx :
        /\ i < j
        /\ calls[i].src # 0
        /\ calls[j].g # <<>>
        /\ calls[j].ci # calls[i].ci
        /\ calendar[calls[j].ci].uid = calendar[calls[i].src].uid
        /\ Found(calls[j].g[1], calendar[calls[i].src])
        /\ calls[j].src = 0

\* the series of the feed whose rule parses
SeriesIdx == {s \in 1..Len(calendar) : IsSeries(calendar[s]) /\ calendar[s].rrule[1].ok}

\* the overrides of the feed that carry the UID of series s
OverridesOf(s) == {o \in OverrideRefs : calendar[o].uid = calendar[s].uid}

\* the generated instants (after exclusions) of series s, as a set
InstantsOf(s) == {Expand(calendar[s])[k] : k \in 1..Len(Expand(calendar[s]))}

\* whether the main loop is done with series s
Finished(s) == s < ci \/ (s = ci /\ pc = "recon" /\ ii > Len(instants))

\* the calls made for instant t of series s
CallsFor(s, t) == {j \in CallIdx : calls[j].ci = s /\ calls[j].g = <<t>>}

\* C2: in a series, alone with its UID, whose overrides each equal exactly one
\* generated instant, an instant that some override equals is resolved from
\* such an override, and every other instant is resolved as a plain occurrence
\* at its own generated time.
C2_Pairing ==
    \A s \in SeriesIdx :
        (/\ Finished(s)
         /\ \A s2 \in SeriesIdx : calendar[s2].uid = calendar[s].uid => s2 = s
         /\ \A o \in OverridesOf(s) :
               Cardinality({t \in InstantsOf(s) : ExactMatch(t, calendar[o])}) = 1)
        => \A t \in InstantsOf(s) : \A j \in CallsFor(s, t) :
              IF \E o \in OverridesOf(s) : ExactMatch(t, calendar[o])
              THEN calls[j].src # 0 /\ ExactMatch(t, calendar[calls[j].src])
              ELSE calls[j].src = 0 /\ calls[j].dtstart = t

\* C3: an override is taken for an instant by date only when no unconsumed
\* override of the series equals the instant exactly; when one does, the
\* override consumed for the instant is an exact one.
C3_ExactFirst ==
    \A j \in MatchIdx :
        (\E o \in OverridesOf(calls[j].ci) :
            /\ UnconsumedBefore(o, j)
            /\ ExactMatch(calls[j].g[1], calendar[o]))
        => ExactMatch(calls[j].g[1], calendar[calls[j].src])

\* C4: every generated instant (after exclusions) of a series is handed to
\* add_event exactly once, from one override or as the plain instant, so a
\* finished series has made as many calls as it has generated instants.
C4_Conservation ==
    \A s \in SeriesIdx :
        LET mine == {j \in CallIdx : calls[j].ci = s}
            gen == Expand(calendar[s])
        IN  /\ Finished(s) =>
                /\ Cardinality(mine) = Len(gen)
                /\ \A k \in 1..Len(gen) : Cardinality(CallsFor(s, gen[k])) = 1
            /\ (s = ci /\ pc = "recon") => Cardinality(mine) = ii - 1
            /\ s > ci => mine = {}

\* a finished series resolved one instant from an override and one plainly
C4_Witness ==
    \E s \in SeriesIdx :
        /\ Finished(s)
        /\ \E i, j \in CallIdx :
              /\ calls[i].ci = s /\ calls[j].ci = s
              /\ calls[i].src # 0 /\ calls[j].src = 0

\* C5: no instant of the expanded sequence of a series denotes the same
\* instant as one of the series' exclusion timestamps, whatever offset the
\* exclusion is tagged with.
C5_Exclusion ==
    pc = "recon" =>
        \A k \in 1..Len(calendar[ci].exdates) : \A n \in 1..Len(instants) :
            AsUTC(instants[n]) # AsUTC(calendar[ci].exdates[k])

\* the totals of the buckets other than the uncategorized one
CountedTotals ==
    SumSeq([k \in 1..Len(event_dict) |->
              IF event_dict[k].key = CATEGORY_IGNORED THEN 0
              ELSE event_dict[k].total])

\* the call that produced a stored event
Uncounted(ev) == PatternMatch(ev.summary) = <<>>

\* C6: total_duration is the sum of the totals of all buckets but the
\* uncategorized one, and the occurrences whose title does not match the
\* pattern are exactly the events of the uncategorized bucket.
C6_GrandTotal ==
    /\ total_duration = CountedTotals
    /\ \A k \in 1..Len(event_dict) : \A n \in 1..Len(event_dict[k].events) :
          Uncounted(event_dict[k].events[n]) <=> event_dict[k].key = CATEGORY_IGNORED

\* both an uncategorized and a categorized bucket hold a duration
C6_Witness ==
    \E k, n \in 1..Len(event_dict) :
        /\ event_dict[k].key = CATEGORY_IGNORED /\ event_dict[k].total > 0
        /\ event_dict[n].key # CATEGORY_IGNORED /\ event_dict[n].total > 0

\* C7: no two keys of event_dict are equal ignoring case; a bucket holds every
\* stored occurrence of its category whatever the casing, its total is their
\* sum, and its key is the category of the first occurrence stored in it.
C7_CaseFolding ==
    /\ \A k, n \in 1..Len(event_dict) :
          Lower(event_dict[k].key) = Lower(event_dict[n].key) => k = n
    /\ \A k \in 1..Len(event_dict) :
          LET b == event_dict[k]
          IN  /\ b.key = Category(b.events[1].summary)
              /\ \A n \in 1..Len(b.events) :
                    Lower(Category(b.events[n].summary)) = Lower(b.key)
              /\ b.total = SumSeq([n \in 1..Len(b.events) |-> b.events[n].duration])

\* a bucket holds an occurrence whose category has another casing than its key
C7_Witness ==
    \E k \in 1..Len(event_dict) : \E n \in 1..Len(event_dict[k].events) :
        /\ Category(event_dict[k].events[n].summary) # event_dict[k].key
        /\ event_dict[k].total > event_dict[k].events[n].duration

\* C8: a step that calls add_event changes event_dict or total_duration
\* exactly when the local date of the start it was given lies between
\* args.dstart and args.dend, both included; the start given for a matched
\* override is the override's DTSTART.
C8_Window ==
    [][calls' # calls =>
        LET c == calls'[Len(calls')]
        IN  /\ Len(calls') = Len(calls) + 1
            /\ (<<event_dict, total_duration>>' # <<event_dict, total_duration>>)
                  <=> (/\ args.dstart[1] <= LocalDate(c.dtstart)
                       /\ LocalDate(c.dtstart) <= args.dend[1])
            /\ c.src # 0 => c.dtstart = calendar[c.src].dtstart]_vars

\* two matched overrides were handed to add_event, one starting on the last
\* day of the window and stored, one starting after it and dropped although
\* its generated instant lies inside the window
C8_Witness ==
    \E i, j \in MatchIdx :
        /\ LocalDate(calls[i].dtstart) = args.dend[1]
        /\ \E k \in 1..Len(event_dict) : \E n \in 1..Len(event_dict[k].events) :
              event_dict[k].events[n].dtstart = calls[i].dtstart
        /\ LocalDate(calls[j].dtstart) > args.dend[1]
        /\ LocalDate(calls[j].g[1]) <= args.dend[1]
        /\ LocalDate(calls[j].g[1]) >= args.dstart[1]
        /\ \A k \in 1..Len(event_dict) : \A n \in 1..Len(event_dict[k].events) :
              event_dict[k].events[n].dtstart # calls[j].dtstart

\* C9: a relaxed-match record is logged for a match exactly when the override
\* was matched by date only; a match by timestamp equality logs none.
C9_RelaxedDiagnostic ==
    \A j \in MatchIdx :
        (\E n \in 1..Len(log) :
            /\ log[n].msg = "relaxed matching"
            /\ log[n].src = calls[j].src
            /\ log[n].g = calls[j].g[1])
        <=> ~calls[j].exact

\* C10: when the run has ended and the feed holds a series whose rule cannot
\* be parsed, every other event and series has been processed and the report
\* has been printed with their totals.
C10_MalformedIsolated ==
    (/\ pc \in {"done", "crashed"}
     /\ \E s \in 1..Len(calendar) :
           IsSeries(calendar[s]) /\ ~calendar[s].rrule[1].ok)
    => /\ ci > Len(calendar)
       /\ report # <<>>
       /\ report[1].total = total_duration
       /\ \A s \in SeriesIdx : Finished(s)

\* C11: a series whose rule has neither COUNT nor UNTIL makes the run fail
\* before any instant is generated: no such series is ever expanded or
\* reconciled, and no occurrence of it reaches add_event.
C11_FailFast ==
    /\ pc = "recon" => calendar[ci].rrule[1].count # 0
    /\ \A j \in CallIdx :
          calls[j].g # <<>> => calendar[calls[j].ci].rrule[1].count # 0

\* the overrides with the UID of the series of call j that no earlier call
\* had consumed
Candidates(j) == {o \in OverridesOf(calls[j].ci) : UnconsumedBefore(o, j)}

\* C12: an instant is resolved from an override exactly when some unconsumed
\* override of its series has a RECURRENCE-ID on the same UTC date, and the
\* override taken is on the same UTC date; the dates of the timestamps as
\* tagged play no part.
C12_UTCDates ==
    \A j \in CallIdx : calls[j].g # <<>> =>
        LET g == calls[j].g[1]
        IN  /\ calls[j].src # 0 <=>
                 \E o \in Candidates(j) : UTCDate(g) = UTCDate(calendar[o].rid[1])
            /\ calls[j].src # 0 =>
                 UTCDate(g) = UTCDate(calendar[calls[j].src].rid[1])

\* an instant passed over an override with its local date but another UTC
\* date, and took, by date only, one with its UTC date but another local date
C12_Witness ==
    \E j \in MatchIdx :
        LET g == calls[j].g[1]
            e == calendar[calls[j].src]
        IN  /\ ~calls[j].exact
            /\ LocalDate(g) # LocalDate(e.rid[1])
            /\ \E o \in Candidates(j) :
                  /\ LocalDate(g) = LocalDate(calendar[o].rid[1])
                  /\ UTCDate(g) # UTCDate(calendar[o].rid[1])
                  /\ \E k \in 1..Len(recurrence_list) : recurrence_list[k] = o

(***************************************************************************)
(* The two loops as a function of the file: the pool and the aggregation   *)
(* state a run over calendar cal ends with.                                *)
(***************************************************************************)
\* "for i in list(rrset)" from the k-th instant of series cal[idx] on
RECURSIVE RunInstants(_, _, _, _, _)
RunInstants(cal, a, acc, idx, k) ==
    IF k > Len(Expand(cal[idx])) THEN acc
    ELSE LET g == Expand(cal[idx])[k]
             hit == ScanHit(cal, acc.pool, cal[idx].uid, g, 1)
         IN  RunInstants(cal, a,
                 [pool |-> IF hit # 0
                           THEN RemoveOverride(cal, acc.pool, cal[acc.pool[hit]])
                           ELSE acc.pool,
                  st |-> AddEvents(a, acc.st,
                                   Occurrences(cal, acc.pool, idx, g, hit))],
                 idx, k + 1)

\* the main loop from component idx on (it ends at a rule that does not parse)
RECURSIVE RunMain(_, _, _, _)
RunMain(cal, a, acc, idx) ==
    IF idx > Len(cal) THEN acc
    ELSE LET c == cal[idx]
         IN  IF c.rid # <<>> \/ c.dateonly THEN RunMain(cal, a, acc, idx + 1)
             ELSE IF c.rrule = <<>>
             THEN RunMain(cal, a,
                          [acc EXCEPT !.st = AddEvent(a, @, c.dtstart,
                                                      Minus(c.dtend, c.dtstart),
                                                      Str(c.summary))],
                          idx + 1)
             ELSE IF ~c.rrule[1].ok THEN acc
             ELSE RunMain(cal, a, RunInstants(cal, a, acc, idx, 1), idx + 1)

RunCalendar(cal, a) ==
    RunMain(cal, a,
            [pool |-> SelectSeq([k \in 1..Len(cal) |-> k],
                                LAMBDA k : cal[k].rid # <<>>),
             st |-> [ed |-> <<>>, td |-> 0]],
            1)

\* the overrides whose UID is the UID of no series of the file
Orphans ==
    {o \in OverrideRefs :
        \A s \in 1..Len(calendar) :
            IsSeries(calendar[s]) => calendar[s].uid # calendar[o].uid}

\* whether both loops have just run to their end (event_dict and
\* total_duration do not change afterwards)
Processed == pc = "main" /\ ci > Len(calendar)

\* C13: an override whose UID is the UID of no series is never handed to
\* add_event and stays in the pool, and when the loops have ended event_dict
\* and total_duration are those of the run over the same file without such
\* overrides.
C13_OrphanFrame ==
    /\ \A o \in Orphans :
          /\ \A j \in CallIdx : calls[j].src # o
          /\ pc \in {"main", "recon", "done", "crashed"} => o \in PoolRefs
    /\ Processed =>
          [ed |-> event_dict, td |-> total_duration]
             = RunCalendar(SelectSeq(calendar,
                                     LAMBDA c : \A o \in Orphans : calendar[o] # c),
                           args).st

\* the run ended with an orphan in the pool, ahead of an override that a
\* series consumed
C13_Witness ==
    /\ pc = "done"
    /\ \E o \in Orphans : \E j \in MatchIdx :
          /\ o < calls[j].src
          /\ Found(calls[j].g[1], calendar[o])
          /\ \E k \in 1..Len(event_dict) : \E n \in 1..Len(event_dict[k].events) :
                event_dict[k].events[n].dtstart = calls[j].dtstart

\* C14: when the report has been printed, every override left in the pool
\* has an orphan-override record in the log.
C14_OrphanDiagnostic ==
    pc = "done" =>
        \A o \in PoolRefs : \E n \in 1..Len(log) :
            log[n].msg = "orphan override" /\ log[n].src = o

\* the occurrence of a generated instant that no override matched
PlainOccurrence(j) ==
    LET c == calendar[calls[j].ci]
    IN  /\ calls[j].dtstart = calls[j].g[1]
        /\ calls[j].duration = AsUTC(c.dtend) - AsUTC(c.dtstart)
        /\ calls[j].summary = Str(c.summary)

\* start and duration of the occurrence of a matched override
OverrideTimes(j) ==
    LET e == calendar[calls[j].src]
    IN  /\ calls[j].dtstart = e.dtstart
        /\ calls[j].duration = AsUTC(e.dtend) - AsUTC(e.dtstart)

\* C15 as stated: a matched instant takes start and duration from the
\* override and the override's SUMMARY whenever the override has one, else
\* the series' SUMMARY; an unmatched instant is the plain occurrence.
C15_OverrideData ==
    \A j \in CallIdx : calls[j].g # <<>> =>
        IF calls[j].src = 0 THEN PlainOccurrence(j)
        ELSE /\ OverrideTimes(j)
             /\ calls[j].summary =
                   IF calendar[calls[j].src].summary # <<>>
                   THEN calendar[calls[j].src].summary[1]
                   ELSE Str(calendar[calls[j].ci].summary)

\* C15 as amended: the override's SUMMARY is used when it is present and not
\* empty; an absent or empty SUMMARY gives the series' SUMMARY.
C15_OverrideDataNonEmpty ==
    \A j \in CallIdx : calls[j].g # <<>> =>
        IF calls[j].src = 0 THEN PlainOccurrence(j)
        ELSE /\ OverrideTimes(j)
             /\ calls[j].summary =
                   IF /\ calendar[calls[j].src].summary # <<>>
                      /\ calendar[calls[j].src].summary[1] # <<>>
                   THEN calendar[calls[j].src].summary[1]
                   ELSE Str(calendar[calls[j].ci].summary)

\* one series had an instant resolved from an override with an empty SUMMARY
\* and a moved start, and another instant resolved plainly
C15_Witness ==
    \E i, k \in CallIdx :
        /\ calls[i].ci = calls[k].ci
        /\ calls[i].src # 0 /\ calls[k].src = 0
        /\ calls[k].g # <<>>
        /\ calendar[calls[i].src].summary = <<<<>>>>
        /\ calls[i].dtstart # calls[i].g[1]
        /\ calls[i].summary = Str(calendar[calls[i].ci].summary)

\* C16: when at least two unconsumed overrides of the series equal the
\* instant exactly, the first of them in pool order is the one consumed and
\* the others are not consumed by that call.
C16_TieBreak ==
    \A j \in CallIdx : calls[j].g # <<>> =>
        LET ties == {o \in Candidates(j) : ExactMatch(calls[j].g[1], calendar[o])}
        IN  Cardinality(ties) >= 2 =>
               /\ calls[j].src \in ties
               /\ \A o \in ties : calls[j].src <= o

\* C17: once both loops have ended under an accepted command line, cw is
\* bound and the run does not end in an error raised by the report header.
C17_HeaderPrinted ==
    /\ (pc = "main" /\ ci > Len(calendar)) => cw # <<>>
    /\ pc = "crashed" => ci <= Len(calendar)

\* C18: the total of every bucket is the sum of the durations of its events,
\* every stored event starts on a date inside the window, and carries the key
\* of its bucket as category.
C18_BucketSum ==
    \A k \in 1..Len(event_dict) :
        LET b == event_dict[k]
        IN  /\ b.total = SumSeq([n \in 1..Len(b.events) |-> b.events[n].duration])
            /\ \A n \in 1..Len(b.events) :
                  /\ args.dstart[1] <= LocalDate(b.events[n].dtstart)
                  /\ LocalDate(b.events[n].dtstart) <= args.dend[1]
                  /\ b.events[n].category = b.key

\* a bucket holds two events of different durations, one of them filed under
\* a key of another casing, while an occurrence outside the window was dropped
C18_Witness ==
    /\ \E k \in 1..Len(event_dict) : \E n, n2 \in 1..Len(event_dict[k].events) :
          /\ event_dict[k].events[n].duration # event_dict[k].events[n2].duration
          /\ Category(event_dict[k].events[n].summary) # event_dict[k].key
    /\ \E j \in CallIdx :
          LocalDate(calls[j].dtstart) > args.dend[1]

====
